---- MODULE Spec2Model ----
(***************************************************************************)
(* Model of scripts/dependencies/dependencies.go: the dependency report    *)
(* pipeline run() and its caller main().  One action per fallible step of  *)
(* run(); every external call (os, command, git) either succeeds or fails. *)
(***************************************************************************)
EXTENDS Integers, Sequences, FiniteSets, TLC

(* ---------------------------- bounds ---------------------------------- *)
\* length of a full commit hash in the model (a git hash has 40 characters)
HashLen == 9
\* largest number of module records the lister prints
MaxModules == 1
\* distinct wall-clock readings time.Now() can give
MaxTime == 2

(* ------------------------- program constants -------------------------- *)
branch == "gh-pages"
file == "dependencies.md"
tokenKey == "GITHUB_TOKEN"
\* head[:7]
ShortLen == 7

Unset == "<unset>"
Branches == {"main", branch}
OutputPaths == {"", ".", "out"}
TokenValues == {Unset, "", "tok"}
Times == 1..MaxTime

(* ----------------------------- values --------------------------------- *)
\* a commit hash: HashLen characters, c in the first ShortLen of them
Hash(c, d) == [i \in 1..HashLen |-> IF i <= ShortLen THEN c ELSE d]
Hashes == {Hash(c, d) : c \in {"a", "b"}, d \in {"0", "1"}}
\* the commits the branches can be at when the run starts
TipHashes == {Hash("a", "0"), Hash("b", "1")}

\* what `go list -u -m --json all` can print: module records, with or
\* without a trailing newline
ModuleList(n) == [i \in 1..n |-> "module"]
ModuleOutputs == {ModuleList(n) \o nl : n \in 0..MaxModules, nl \in {<<>>, <<"\n">>}}

\* Stream.OutputTrimNL: the output without one trailing newline
OutputTrimNL(s) ==
    IF Len(s) > 0 /\ s[Len(s)] = "\n" THEN SubSeq(s, 1, Len(s) - 1) ELSE s

\* go-mod-outdated on the stored list: a markdown table, newline-terminated
GoModOutdated(mode, data) == <<mode>> \o data \o <<"\n">>

\* filepath.Join(dir, name): empty elements are ignored, the result is Cleaned
Join(dir, name) == IF dir \in {"", "."} THEN <<name>> ELSE <<dir, name>>

ReportPaths == {Join(d, file) : d \in OutputPaths}
RootFile == <<file>>

\* the zero value of content, and the rendered template's fields
EmptyReport == [time |-> 0, short |-> <<>>, link |-> <<>>,
                outdated |-> <<>>, all |-> <<>>]
\* the last seven characters instead of the first
Short7Last(h) == SubSeq(h, Len(h) - ShortLen + 1, Len(h))
Short7(h) == SubSeq(h, 1, ShortLen)
Sprintf(t, h, o, a) ==
    [time |-> t, short |-> Short7(h), link |-> h, outdated |-> o, all |-> a]

\* a report of an earlier run
OldReport == [time |-> 0, short |-> Short7(Hash("b", "1")), link |-> Hash("b", "1"),
              outdated |-> <<"outdated", "\n">>, all |-> <<"all", "\n">>]

NoFile == [exists |-> FALSE, data |-> EmptyReport]
FileOf(r) == [exists |-> TRUE, data |-> r]
OldFiles == {NoFile, FileOf(OldReport)}

nil == "nil"

(* ----------------------------- state ---------------------------------- *)
VARIABLES
    pc,            \* the statement run() / main() is at
    outputPath,    \* --output-path
    env,           \* process environment: GOSUMDB, GITHUB_TOKEN
    dirs,          \* directories that exist
    fs,            \* the report files: path -> file
    tmpFile,       \* the modules- temp file: [created, exists, data]
    cur,           \* repository: the branch checked out
    tip,           \* repository: branch -> commit hash
    tree,          \* repository: branch -> committed dependencies.md
    index,         \* repository: the staged dependencies.md
    remote,        \* the remote's gh-pages dependencies.md
    modules, outdated, all, head, content, currentBranch, err,   \* locals of run()
    deferred,      \* the deferred restoration is registered
    ret,           \* run()'s result
    exit,          \* process status
    repo0,         \* the repository and the report files at invocation
    log            \* the calls made so far, in order

locals == <<modules, outdated, all, head, content, currentBranch, err>>
repo == <<cur, tip, tree, index, remote>>
vars == <<pc, outputPath, env, dirs, fs, tmpFile, repo, locals, deferred, ret,
          exit, repo0, log>>

Call(op, arg, ok) == [op |-> op, arg |-> arg, ok |-> ok]
Logged(op, arg, ok) == log' = Append(log, Call(op, arg, ok))

Init ==
    /\ pc = "MkdirAll"
    /\ outputPath \in OutputPaths
    /\ env \in {[GOSUMDB |-> Unset, GITHUB_TOKEN |-> t] : t \in TokenValues}
    /\ dirs \in SUBSET {"out"}
    /\ fs \in [ReportPaths -> OldFiles]
    /\ fs[<<"out", file>>].exists => "out" \in dirs
    /\ tmpFile = [created |-> FALSE, exists |-> FALSE, data |-> <<>>]
    /\ cur \in Branches
    /\ tip \in [Branches -> TipHashes]
    /\ tip["main"] = Hash("a", "0")
    /\ tree \in [Branches -> OldFiles]
    /\ index = tree[cur]
    /\ remote = tree[branch]
    /\ modules = <<>> /\ outdated = <<>> /\ all = <<>> /\ head = <<>>
    /\ content = EmptyReport /\ currentBranch = "" /\ err = nil
    /\ deferred = FALSE
    /\ ret = nil
    /\ exit = "running"
    /\ repo0 = [cur |-> cur, tip |-> tip, tree |-> tree, index |-> index,
                remote |-> remote, fs |-> fs]
    /\ log = <<>>

\* a return that does not run the deferred call
ReturnSkipsDefer(e) ==
    /\ ret' = e
    /\ pc' = "main"

\* `return e` in run(): the result is set, then the deferred call (if
\* registered) runs before control is back in main()
Return(e) ==
    /\ ret' = e
    /\ pc' = IF deferred THEN "defer" ELSE "main"

\* outputFile := filepath.Join(outputPath, file)
outputFile == Join(outputPath, file)

(* --------------------------- repository ------------------------------- *)
\* `git checkout b` refuses to overwrite a dependencies.md that differs
\* between the two branches and has local or staged changes
CanCheckout(b) ==
    \/ b = cur
    \/ tree[cur] = tree[b]
    \/ index = tree[cur] /\ fs[RootFile] = tree[cur]

\* repo.Checkout(b): on success b is checked out and a clean dependencies.md
\* is replaced by b's; on failure nothing changes
Checkout(b, ok) ==
    /\ ok => CanCheckout(b)
    /\ cur' = IF ok THEN b ELSE cur
    /\ IF ok /\ b # cur /\ tree[cur] # tree[b]
       THEN /\ fs' = [fs EXCEPT ![RootFile] = tree[b]]
            /\ index' = tree[b]
       ELSE UNCHANGED <<fs, index>>
    /\ UNCHANGED <<tip, tree, remote>>

\* os.WriteFile(path, content): creates or truncates, then writes; a failed
\* call leaves the file as it was or empty
WriteFile(path, ok) ==
    IF ok
    THEN fs' = [fs EXCEPT ![path] = FileOf(content)]
    ELSE \E f \in {fs[path], FileOf(EmptyReport)} : fs' = [fs EXCEPT ![path] = f]

(* ----------------------------- run() ---------------------------------- *)
\* os.MkdirAll(outputPath, 0o755); MkdirAll("") fails with ENOENT
MkdirAll ==
    /\ pc = "MkdirAll"
    /\ \E ok \in BOOLEAN :
        /\ ok => outputPath # ""
        /\ Logged("MkdirAll", outputPath, ok)
        /\ IF ok
           THEN /\ dirs' = dirs \cup (IF outputPath = "out" THEN {"out"} ELSE {})
                /\ pc' = "Setenv"
                /\ UNCHANGED ret
           ELSE /\ Return("create output path")
                /\ UNCHANGED dirs
    /\ UNCHANGED <<outputPath, env, fs, tmpFile, repo, locals, deferred, exit, repo0>>

\* os.Setenv("GOSUMDB", "off")
Setenv ==
    /\ pc = "Setenv"
    /\ \E ok \in BOOLEAN :
        /\ Logged("Setenv", "GOSUMDB", ok)
        /\ IF ok
           THEN /\ env' = [env EXCEPT !["GOSUMDB"] = "off"]
                /\ pc' = "GoList"
                /\ UNCHANGED ret
           ELSE /\ Return("disabling GOSUMDB")
                /\ UNCHANGED env
    /\ UNCHANGED <<outputPath, dirs, fs, tmpFile, repo, locals, deferred, exit, repo0>>

\* modules, err := command.New("go", "list", ...).RunSilentSuccessOutput()
GoList ==
    /\ pc = "GoList"
    /\ \/ \E out \in ModuleOutputs :
            /\ Logged("GoList", "", TRUE)
            /\ modules' = out
            /\ err' = nil
            /\ pc' = "CreateTemp"
            /\ UNCHANGED ret
       \/ /\ Logged("GoList", "", FALSE)
          /\ err' = "error"
          /\ Return("listing go modules")
          /\ UNCHANGED modules
    /\ UNCHANGED <<outputPath, env, dirs, fs, tmpFile, repo, outdated, all, head,
                   content, currentBranch, deferred, exit, repo0>>

\* tmpFile, err := os.CreateTemp("", "modules-")
CreateTemp ==
    /\ pc = "CreateTemp"
    /\ \E ok \in BOOLEAN :
        /\ Logged("CreateTemp", "", ok)
        /\ IF ok
           THEN /\ tmpFile' = [created |-> TRUE, exists |-> TRUE, data |-> <<>>]
                /\ err' = nil
                /\ pc' = "WriteTemp"
                /\ UNCHANGED ret
           ELSE /\ err' = "error"
                /\ Return("creating temp file")
                /\ UNCHANGED tmpFile
    /\ UNCHANGED <<outputPath, env, dirs, fs, repo, modules, outdated, all, head,
                   content, currentBranch, deferred, exit, repo0>>

\* tmpFile.WriteString(modules.OutputTrimNL())
WriteTemp ==
    /\ pc = "WriteTemp"
    /\ \E ok \in BOOLEAN :
        /\ Logged("WriteTemp", "", ok)
        /\ IF ok
           THEN /\ tmpFile' = [tmpFile EXCEPT !.data = OutputTrimNL(modules)]
                /\ pc' = "RetrieveOutdated"
                /\ UNCHANGED ret
           ELSE /\ Return("writing to temp file")
                /\ UNCHANGED tmpFile
    /\ UNCHANGED <<outputPath, env, dirs, fs, repo, locals, deferred, exit, repo0>>

\* the outdated listing with its error not looked at
RetrieveOutdatedUnchecked ==
    /\ pc = "RetrieveOutdated"
    /\ \E ok \in BOOLEAN :
        /\ ok => tmpFile.exists
        /\ Logged("GoModOutdated", "outdated", ok)
        /\ outdated' = IF ok THEN GoModOutdated("outdated", tmpFile.data) ELSE outdated
        /\ err' = IF ok THEN nil ELSE "error"
    /\ pc' = "RetrieveAll"
    /\ UNCHANGED <<outputPath, env, dirs, fs, tmpFile, repo, modules, all, head,
                   content, currentBranch, deferred, ret, exit, repo0>>

\* outdated, err := cat tmpFile | go-mod-outdated --direct --update --style=markdown
RetrieveOutdated ==
    /\ pc = "RetrieveOutdated"
    /\ \E ok \in BOOLEAN :
        /\ ok => tmpFile.exists
        /\ Logged("GoModOutdated", "outdated", ok)
        /\ IF ok
           THEN /\ outdated' = GoModOutdated("outdated", tmpFile.data)
                /\ err' = nil
                /\ pc' = "RetrieveAll"
                /\ UNCHANGED ret
           ELSE /\ err' = "error"
                /\ Return("retrieving outdated dependencies")
                /\ UNCHANGED outdated
    /\ UNCHANGED <<outputPath, env, dirs, fs, tmpFile, repo, modules, all, head,
                   content, currentBranch, deferred, exit, repo0>>

\* all, err := cat tmpFile | go-mod-outdated --style=markdown
RetrieveAll ==
    /\ pc = "RetrieveAll"
    /\ \E ok \in BOOLEAN :
        /\ ok => tmpFile.exists
        /\ Logged("GoModOutdated", "all", ok)
        /\ IF ok
           THEN /\ all' = GoModOutdated("all", tmpFile.data)
                /\ err' = nil
                /\ pc' = "RemoveAll"
                /\ UNCHANGED ret
           ELSE /\ err' = "error"
                /\ Return("retrieving all dependencies")
                /\ UNCHANGED all
    /\ UNCHANGED <<outputPath, env, dirs, fs, tmpFile, repo, modules, outdated,
                   head, content, currentBranch, deferred, exit, repo0>>

\* os.RemoveAll(outputFile): the result is not looked at
RemoveAll ==
    /\ pc = "RemoveAll"
    /\ \E ok \in BOOLEAN :
        /\ Logged("RemoveAll", outputPath, ok)
        /\ fs' = IF ok THEN [fs EXCEPT ![outputFile] = NoFile] ELSE fs
    /\ pc' = "OpenRepo"
    /\ UNCHANGED <<outputPath, env, dirs, tmpFile, repo, locals, deferred, ret,
                   exit, repo0>>

\* the repository opened with its error not looked at
OpenRepoUnchecked ==
    /\ pc = "OpenRepo"
    /\ \E ok \in BOOLEAN :
        /\ Logged("OpenRepo", "", ok)
        /\ err' = IF ok THEN nil ELSE "error"
    /\ pc' = "Head"
    /\ UNCHANGED <<outputPath, env, dirs, fs, tmpFile, repo, modules, outdated,
                   all, head, content, currentBranch, deferred, ret, exit, repo0>>

\* repo, err := git.OpenRepo(".")
OpenRepo ==
    /\ pc = "OpenRepo"
    /\ \E ok \in BOOLEAN :
        /\ Logged("OpenRepo", "", ok)
        /\ err' = IF ok THEN nil ELSE "error"
        /\ IF ok
           THEN pc' = "Head" /\ UNCHANGED ret
           ELSE Return("open local repo")
    /\ UNCHANGED <<outputPath, env, dirs, fs, tmpFile, repo, modules, outdated,
                   all, head, content, currentBranch, deferred, exit, repo0>>

\* head, err := repo.Head()
RepoHead ==
    /\ pc = "Head"
    /\ \E ok \in BOOLEAN :
        /\ Logged("Head", cur, ok)
        /\ err' = IF ok THEN nil ELSE "error"
        /\ IF ok
           THEN /\ head' = tip[cur]
                /\ pc' = "Render"
                /\ UNCHANGED ret
           ELSE /\ Return("get repository HEAD")
                /\ UNCHANGED head
    /\ UNCHANGED <<outputPath, env, dirs, fs, tmpFile, repo, modules, outdated,
                   all, content, currentBranch, deferred, exit, repo0>>

\* content := fmt.Sprintf(template, time.Now()..., head[:7], head, outdated, all);
\* head[:7] panics on a string shorter than 7
Render ==
    /\ pc = "Render"
    /\ IF Len(head) < ShortLen
       THEN /\ Logged("Render", "", FALSE)
            /\ pc' = "exited"
            /\ exit' = "panic"
            /\ UNCHANGED content
       ELSE /\ \E t \in Times :
                content' = Sprintf(t, head, OutputTrimNL(outdated), OutputTrimNL(all))
            /\ Logged("Render", "", TRUE)
            /\ pc' = "WriteReport"
            /\ UNCHANGED exit
    /\ UNCHANGED <<outputPath, env, dirs, fs, tmpFile, repo, modules, outdated, all,
                   head, currentBranch, err, deferred, ret, repo0>>

\* the local write with its error not looked at
WriteReportUnchecked ==
    /\ pc = "WriteReport"
    /\ \E ok \in BOOLEAN :
        /\ Logged("os.WriteFile(outputFile)", outputPath, ok)
        /\ WriteFile(outputFile, ok)
    /\ pc' = "LookupEnv"
    /\ UNCHANGED <<outputPath, env, dirs, tmpFile, repo, locals, deferred, ret, exit,
                   repo0>>

\* os.WriteFile(outputFile, []byte(content), 0o644)
WriteReport ==
    /\ pc = "WriteReport"
    /\ \E ok \in BOOLEAN :
        /\ Logged("os.WriteFile(outputFile)", outputPath, ok)
        /\ WriteFile(outputFile, ok)
        /\ IF ok
           THEN pc' = "LookupEnv" /\ UNCHANGED ret
           ELSE Return("writing report")
    /\ UNCHANGED <<outputPath, env, dirs, tmpFile, repo, locals, deferred, exit, repo0>>

\* the credential check without the test for the empty string
LookupEnvSetOnly ==
    /\ pc = "LookupEnv"
    /\ Logged("LookupEnv", tokenKey, env[tokenKey] # Unset)
    /\ IF env[tokenKey] = Unset
       THEN pc' = "exited" /\ exit' = "exit0"
       ELSE pc' = "CurrentBranch" /\ UNCHANGED exit
    /\ UNCHANGED <<outputPath, env, dirs, fs, tmpFile, repo, locals, deferred, ret,
                   repo0>>

\* token, tokenSet := os.LookupEnv(tokenKey); os.Exit(0) without a token
LookupEnv ==
    /\ pc = "LookupEnv"
    /\ Logged("LookupEnv", tokenKey, env[tokenKey] # Unset)
    /\ IF env[tokenKey] = Unset \/ env[tokenKey] = ""
       THEN pc' = "exited" /\ exit' = "exit0"
       ELSE pc' = "CurrentBranch" /\ UNCHANGED exit
    /\ UNCHANGED <<outputPath, env, dirs, fs, tmpFile, repo, locals, deferred, ret, repo0>>

\* currentBranch, err := repo.CurrentBranch()
CurrentBranch ==
    /\ pc = "CurrentBranch"
    /\ \E ok \in BOOLEAN :
        /\ Logged("CurrentBranch", "", ok)
        /\ err' = IF ok THEN nil ELSE "error"
        /\ IF ok
           THEN /\ currentBranch' = cur
                /\ pc' = "Checkout"
                /\ UNCHANGED ret
           ELSE /\ Return("get current branch")
                /\ UNCHANGED currentBranch
    /\ UNCHANGED <<outputPath, env, dirs, fs, tmpFile, repo, modules, outdated,
                   all, head, content, deferred, exit, repo0>>

\* the restoration deferred before the checkout's error is looked at
CheckoutBranchDeferFirst ==
    /\ pc = "Checkout"
    /\ \E ok \in BOOLEAN :
        /\ Logged("repo.Checkout(branch)", branch, ok)
        /\ Checkout(branch, ok)
        /\ deferred' = TRUE
        /\ IF ok
           THEN pc' = "WriteTarget" /\ UNCHANGED ret
           ELSE ret' = "checkout gh-pages branch" /\ pc' = "defer"
    /\ UNCHANGED <<outputPath, env, dirs, tmpFile, locals, exit, repo0>>

\* repo.Checkout(branch), then defer func() { err = repo.Checkout(currentBranch) }()
CheckoutBranch ==
    /\ pc = "Checkout"
    /\ \E ok \in BOOLEAN :
        /\ Logged("repo.Checkout(branch)", branch, ok)
        /\ Checkout(branch, ok)
        /\ IF ok
           THEN /\ deferred' = TRUE
                /\ pc' = "WriteTarget"
                /\ UNCHANGED ret
           ELSE /\ Return("checkout gh-pages branch")
                /\ UNCHANGED deferred
    /\ UNCHANGED <<outputPath, env, dirs, tmpFile, locals, exit, repo0>>

\* the in-repo write of a report rendered anew, with a new time
WriteTargetRendersAgain ==
    /\ pc = "WriteTarget"
    /\ \E ok \in BOOLEAN, t \in Times :
        /\ Logged("os.WriteFile(file)", file, ok)
        /\ content' = Sprintf(t, head, OutputTrimNL(outdated), OutputTrimNL(all))
        /\ fs' = IF ok THEN [fs EXCEPT ![RootFile] = FileOf(content')] ELSE fs
        /\ IF ok
           THEN pc' = "Add" /\ UNCHANGED ret
           ELSE Return("write content to file")
    /\ UNCHANGED <<outputPath, env, dirs, tmpFile, repo, modules, outdated, all,
                   head, currentBranch, err, deferred, exit, repo0>>

\* os.WriteFile(file, []byte(content), 0o644)
WriteTarget ==
    /\ pc = "WriteTarget"
    /\ \E ok \in BOOLEAN :
        /\ Logged("os.WriteFile(file)", file, ok)
        /\ WriteFile(RootFile, ok)
        /\ IF ok
           THEN pc' = "Add" /\ UNCHANGED ret
           ELSE Return("write content to file")
    /\ UNCHANGED <<outputPath, env, dirs, tmpFile, repo, locals, deferred, exit, repo0>>

\* the staging with its error not looked at
AddFileUnchecked ==
    /\ pc = "Add"
    /\ \E ok \in BOOLEAN :
        /\ Logged("Add", file, ok)
        /\ index' = IF ok THEN fs[RootFile] ELSE index
    /\ pc' = "Commit"
    /\ UNCHANGED <<outputPath, env, dirs, fs, tmpFile, cur, tip, tree, remote,
                   locals, deferred, ret, exit, repo0>>

\* repo.Add(file)
AddFile ==
    /\ pc = "Add"
    /\ \E ok \in BOOLEAN :
        /\ Logged("Add", file, ok)
        /\ index' = IF ok THEN fs[RootFile] ELSE index
        /\ IF ok
           THEN pc' = "Commit" /\ UNCHANGED ret
           ELSE Return("add file to repo")
    /\ UNCHANGED <<outputPath, env, dirs, fs, tmpFile, cur, tip, tree, remote,
                   locals, deferred, exit, repo0>>

\* repo.Commit("Update dependency report")
CommitReport ==
    /\ pc = "Commit"
    /\ \/ \E h \in Hashes \ {tip[cur]} :
            /\ Logged("Commit", "", TRUE)
            /\ tree' = [tree EXCEPT ![cur] = index]
            /\ tip' = [tip EXCEPT ![cur] = h]
            /\ pc' = "Push"
            /\ UNCHANGED ret
       \/ /\ Logged("Commit", "", FALSE)
          /\ Return("commit")
          /\ UNCHANGED <<tree, tip>>
    /\ UNCHANGED <<outputPath, env, dirs, fs, tmpFile, cur, index, remote, locals,
                   deferred, exit, repo0>>

\* repo.Push(branch); return nil
PushBranch ==
    /\ pc = "Push"
    /\ \E ok \in BOOLEAN :
        /\ Logged("Push", branch, ok)
        /\ remote' = IF ok THEN tree[branch] ELSE remote
        /\ Return(IF ok THEN nil ELSE "push changes")
    /\ UNCHANGED <<outputPath, env, dirs, fs, tmpFile, cur, tip, tree, index,
                   locals, deferred, exit, repo0>>

\* the deferred func() { err = repo.Checkout(currentBranch) }(): run() has no
\* named result, so the assignment to err does not reach the caller
RestoreBranch ==
    /\ pc = "defer"
    /\ \E ok \in BOOLEAN :
        /\ Logged("repo.Checkout(currentBranch)", currentBranch, ok)
        /\ Checkout(currentBranch, ok)
        /\ err' = IF ok THEN nil ELSE "error"
    /\ pc' = "main"
    /\ UNCHANGED <<outputPath, env, dirs, tmpFile, modules, outdated, all, head,
                   content, currentBranch, deferred, ret, exit, repo0>>

(* ----------------------------- main() --------------------------------- *)
\* if err := run(); err != nil { logrus.Fatalf(...) }
Main ==
    /\ pc = "main"
    /\ exit' = IF ret # nil THEN "exit1" ELSE "exit0"
    /\ pc' = "exited"
    /\ UNCHANGED <<outputPath, env, dirs, fs, tmpFile, repo, locals, deferred, ret,
                   repo0, log>>

Next ==
    \/ MkdirAll \/ Setenv \/ GoList \/ CreateTemp \/ WriteTemp
    \/ RetrieveOutdated \/ RetrieveAll \/ RemoveAll \/ OpenRepo \/ RepoHead
    \/ Render \/ WriteReport \/ LookupEnv \/ CurrentBranch \/ CheckoutBranch
    \/ WriteTarget \/ AddFile \/ CommitReport \/ PushBranch \/ RestoreBranch
    \/ Main

Spec == Init /\ [][Next]_vars

(* ------------------------ reading the log ----------------------------- *)
Ended == pc = "exited"
Returned == pc \in {"main", "exited"} /\ exit # "panic"
TokenPresent == env[tokenKey] # Unset /\ env[tokenKey] # ""

Calls(op) == {i \in DOMAIN log : log[i].op = op}
Made(op) == Calls(op) # {}
Succeeded(op) == \E i \in Calls(op) : log[i].ok
FailedAt(op) == \E i \in Calls(op) : ~log[i].ok
LastCall == log[Len(log)]

CheckoutOp == "repo.Checkout(branch)"
RestoreOp == "repo.Checkout(currentBranch)"
WriteLocalOp == "os.WriteFile(outputFile)"
WriteTargetOp == "os.WriteFile(file)"
\* the publisher's steps in program order, and the restoration
PublisherSteps == <<"CurrentBranch", CheckoutOp, WriteTargetOp, "Add", "Commit", "Push">>
PublisherOps == {PublisherSteps[k] : k \in DOMAIN PublisherSteps} \cup {RestoreOp}

(* ------------------------------ C1 ------------------------------------ *)
\* C1: with the credential present, whenever run() has ended after a
\* successful checkout of gh-pages, the current branch is the branch captured
\* before the checkout (so a run that reports success is not left on gh-pages).
C1_BranchRestoredAtEnd ==
    (Ended /\ TokenPresent /\ Succeeded(CheckoutOp)) => cur = currentBranch

(* ------------------------------ C2 ------------------------------------ *)
\* C2: once the checkout of gh-pages has succeeded, the checkout of the
\* captured branch is attempted exactly once, as the last call of the run, on
\* every return path; it is never attempted before that checkout succeeded.
C2_RestoreAttemptedOnceLast ==
    /\ Cardinality(Calls(RestoreOp)) <= 1
    /\ \A i \in Calls(RestoreOp) :
          /\ \E j \in 1..(i - 1) : log[j] = Call(CheckoutOp, branch, TRUE)
          /\ i = Len(log)
          /\ log[i].arg = currentBranch
          /\ currentBranch = repo0.cur
    /\ (Returned /\ Succeeded(CheckoutOp)) => Made(RestoreOp)

\* a run that returned after a failed commit, the restoration being its last call
C2_Witness ==
    /\ Ended /\ FailedAt("Commit")
    /\ LastCall.op = RestoreOp /\ LastCall.ok
    /\ ret = "commit"

\* ... and one after each other way out of the publisher
C2_WitnessPaths ==
    /\ Ended /\ Made(RestoreOp)
    /\ \/ FailedAt(WriteTargetOp)
       \/ FailedAt("Add")
       \/ FailedAt("Push")
       \/ Succeeded("Push")

(* ------------------------------ C5 ------------------------------------ *)
\* the steps whose failure the pipeline reports
FallibleOps ==
    {"MkdirAll", "Setenv", "GoList", "CreateTemp", "WriteTemp", "GoModOutdated",
     "OpenRepo", "Head", WriteLocalOp} \cup PublisherOps

\* C5: the process exits 0 only if every executed step succeeded (or the run
\* ended at the no-credential exit); a failure of any step, the restoration
\* checkout included, gives a non-zero exit.
C5_ExitZeroOnlyIfAllSucceeded ==
    (Ended /\ exit = "exit0") =>
        \A i \in DOMAIN log : log[i].op \in FallibleOps => log[i].ok

(* ------------------------------ C7 ------------------------------------ *)
\* C7: the temp file holding the dependency list, once created, has been
\* deleted by the time the run ends, on every exit path.
C7_TempFileDeletedAtEnd ==
    (Ended /\ tmpFile.created) => ~tmpFile.exists

(* ------------------------------ C3 ------------------------------------ *)
RepoUnchanged ==
    /\ cur = repo0.cur /\ tip = repo0.tip /\ tree = repo0.tree
    /\ index = repo0.index /\ remote = repo0.remote

\* C3: with GITHUB_TOKEN unset or empty no publisher step is ever made
\* (no capture, checkout, in-repo write, add, commit, push, restore), the
\* repository stays as it was at invocation whatever the local write did, and
\* a run that reaches the credential check exits with status 0.
C3_NoTokenNoPublication ==
    ~TokenPresent =>
        /\ \A op \in PublisherOps : ~Made(op)
        /\ pc \notin {"CurrentBranch", "Checkout", "WriteTarget", "Add", "Commit",
                      "Push", "defer"}
        /\ RepoUnchanged
        /\ Made("LookupEnv") => (Ended /\ exit = "exit0")

\* the credential is the empty string and the run has ended at the check
C3_Witness ==
    /\ env[tokenKey] = ""
    /\ Ended /\ exit = "exit0"
    /\ LastCall = Call("LookupEnv", tokenKey, TRUE)

(* ------------------------------ C4 ------------------------------------ *)
\* C4: the local report is written, successfully, before the credential is
\* examined and before any publisher step; the write is made at most once and
\* the file holds the rendered report when the credential check is reached.
C4_LocalWriteFirst ==
    /\ \A i \in DOMAIN log :
          log[i].op \in PublisherOps \cup {"LookupEnv"} =>
              \E j \in 1..(i - 1) : log[j] = Call(WriteLocalOp, outputPath, TRUE)
    /\ Cardinality(Calls(WriteLocalOp)) <= 1
    /\ pc \in {"LookupEnv", "CurrentBranch", "Checkout", "WriteTarget", "Add",
               "Commit", "Push", "defer"} => Succeeded(WriteLocalOp)
    /\ pc = "LookupEnv" => fs[outputFile] = FileOf(content)

\* publication failed at the push, after the local report was written
C4_Witness ==
    /\ Ended /\ FailedAt("Push")
    /\ Succeeded(WriteLocalOp)
    /\ fs[<<"out", file>>] = FileOf(content)

(* ------------------------------ C6 ------------------------------------ *)
\* C6: with the credential present, a failed branch capture or a failed
\* checkout of gh-pages makes run() return an error, with no restoration
\* checkout, no in-repo write, no add, commit or push, and the repository on
\* the branch it was on at invocation.
C6_EarlyPublisherFailure ==
    (TokenPresent /\ (FailedAt("CurrentBranch") \/ FailedAt(CheckoutOp))) =>
        /\ \A op \in {RestoreOp, WriteTargetOp, "Add", "Commit", "Push"} : ~Made(op)
        /\ cur = repo0.cur
        /\ ret # nil
        /\ pc \in {"main", "exited"}
        /\ Ended => exit = "exit1"

\* the checkout of gh-pages failed and the process has exited
C6_Witness ==
    /\ Ended /\ exit = "exit1"
    /\ LastCall = Call(CheckoutOp, branch, FALSE)
    /\ repo0.cur = "main"

(* ------------------------------ C8 ------------------------------------ *)
FormatCalls(mode) == {i \in Calls("GoModOutdated") : log[i].arg = mode}

\* C8: the lister is called at most once and the formatter at most twice, in
\* the order lister, mode A (outdated), mode B (all); mode A only after the
\* lister and the temp-file write succeeded, mode B only after mode A
\* succeeded; both read the same stored list; a run that reaches rendering
\* has called each mode exactly once.
C8_ListerThenFormatters ==
    /\ Cardinality(Calls("GoList")) <= 1
    /\ Cardinality(FormatCalls("outdated")) <= 1
    /\ Cardinality(FormatCalls("all")) <= 1
    /\ Calls("GoModOutdated") = FormatCalls("outdated") \cup FormatCalls("all")
    /\ \A i \in FormatCalls("outdated") :
          /\ \E j \in 1..(i - 1) : log[j] = Call("GoList", "", TRUE)
          /\ \E j \in 1..(i - 1) : log[j] = Call("WriteTemp", "", TRUE)
    /\ \A i \in FormatCalls("all") :
          \E j \in 1..(i - 1) : log[j] = Call("GoModOutdated", "outdated", TRUE)
    /\ \A i \in FormatCalls("all") :
          log[i].ok =>
              /\ outdated = GoModOutdated("outdated", OutputTrimNL(modules))
              /\ all = GoModOutdated("all", OutputTrimNL(modules))
    /\ Made("Render") =>
          /\ Cardinality(FormatCalls("outdated")) = 1
          /\ Cardinality(FormatCalls("all")) = 1
          /\ \A i \in Calls("GoModOutdated") : log[i].ok

\* rendering was reached with a non-empty list that ended in a newline
C8_Witness ==
    /\ Made("Render")
    /\ Len(modules) > 1
    /\ modules[Len(modules)] = "\n"

(* ------------------------------ C9 ------------------------------------ *)
\* the reports this run wrote: the rendered content and every file holding it
WrittenFiles ==
    {fs[p] : p \in ReportPaths} \cup {tree[b] : b \in Branches} \cup {index, remote}
WrittenReports ==
    {f.data : f \in {g \in WrittenFiles : g.exists /\ g.data.time \in Times}}
        \cup (IF Made("Render") THEN {content} ELSE {})

C10_PublisherInOrder ==
    \A k \in DOMAIN PublisherSteps :
        /\ Cardinality(Calls(PublisherSteps[k])) <= 1
        /\ \A i \in Calls(PublisherSteps[k]) :
              \A m \in 1..(k - 1) :
                  \E j \in 1..(i - 1) :
                      log[j].op = PublisherSteps[m] /\ log[j].ok

\* every publisher step was made and the push succeeded
C10_Witness ==
    /\ Ended /\ Succeeded("Push")
    /\ \A k \in DOMAIN PublisherSteps : Succeeded(PublisherSteps[k])

(* ------------------------------ C11 ----------------------------------- *)
\* the run removed a local report that existed at invocation
RemovedOldReport == Succeeded("RemoveAll") /\ repo0.fs[outputFile].exists

\* C11: the removal of the pre-existing local report and the write of the new
\* one are one step: no fallible step lies between them, and no run ends with
\* the previous report removed and no write of the new one attempted.
C11_WriteFollowsRemoval ==
    /\ \A i \in Calls("RemoveAll") : \A j \in Calls(WriteLocalOp) :
          \A k \in (i + 1)..(j - 1) : log[k].op \notin FallibleOps
    /\ (Returned /\ RemovedOldReport) => Made(WriteLocalOp)

\* C11 as amended: the repository open and the HEAD read (and the rendering)
\* lie between the removal and the write; the write is attempted exactly when
\* both succeeded, so a run in which one of them fails ends with the previous
\* report removed and no write attempted.
C11_WriteFollowsRemovalAndRepoReads ==
    /\ Cardinality(Calls("RemoveAll")) <= 1
    /\ \A j \in Calls(WriteLocalOp) :
          /\ j > 4
          /\ log[j - 4].op = "RemoveAll"
          /\ log[j - 3] = Call("OpenRepo", "", TRUE)
          /\ log[j - 2].op = "Head" /\ log[j - 2].ok
          /\ log[j - 1] = Call("Render", "", TRUE)
    /\ (Returned /\ Made("RemoveAll")) =>
          (Made(WriteLocalOp) <=> (Succeeded("OpenRepo") /\ Succeeded("Head")))
    /\ (Returned /\ RemovedOldReport /\ ~Made(WriteLocalOp)) =>
          ~fs[outputFile].exists

\* the old report was removed and the new one written
C11_Witness ==
    /\ Ended /\ RemovedOldReport
    /\ Succeeded(WriteLocalOp)
    /\ fs[<<"out", file>>] = FileOf(content)

\* the old report was removed, the HEAD read failed, nothing was written
C11_WitnessLost ==
    /\ Ended /\ RemovedOldReport
    /\ FailedAt("Head")
    /\ ~Made(WriteLocalOp) /\ ~fs[outputFile].exists

(* ------------------------------ C12 ----------------------------------- *)
\* C12: once the local report has been written no later step changes or
\* removes the file at <output-path>/dependencies.md, whatever the output
\* path (also when it is the repository root): from the write on, and at the
\* end of the run, the file holds this run's report.
C12_LocalReportKept ==
    Succeeded(WriteLocalOp) => fs[outputFile] = FileOf(content)

\* C12, its last clause for the runs that report success: a run that wrote
\* the local report and exits 0 ends with the file holding this run's report.
C12_LocalReportKeptOnSuccess ==
    (Ended /\ exit = "exit0" /\ Succeeded(WriteLocalOp)) =>
        fs[outputFile] = FileOf(content)

\* the same for an output path that is not the repository root
C12_LocalReportKeptOutsideRoot ==
    (Succeeded(WriteLocalOp) /\ outputFile # RootFile) =>
        fs[outputFile] = FileOf(content)

\* the run published from the repository root, reported success, and the
\* restoring checkout took the report out of the working tree
C12_ReportLostAtRoot ==
    /\ Ended /\ exit = "exit0"
    /\ outputPath = "." /\ Succeeded("Push")
    /\ LastCall = Call(RestoreOp, "main", TRUE)
    /\ ~fs[outputFile].exists

(* ------------------------------ C13 ----------------------------------- *)
\* C13: the report is rendered once per run, before any write, and nothing
\* alters it afterwards: what the in-repo write puts into the repo-root
\* dependencies.md (and what is then staged and committed on gh-pages) is
\* what the local write put into the output file.
C13_RenderedOnceWrittenTwice ==
    /\ Cardinality(Calls("Render")) <= 1
    /\ \A i \in Calls(WriteLocalOp) \cup Calls(WriteTargetOp) :
          \E j \in 1..(i - 1) : log[j] = Call("Render", "", TRUE)
    /\ pc = "LookupEnv" => fs[outputFile] = FileOf(content)
    /\ pc = "Add" =>
          /\ fs[RootFile] = FileOf(content)
          /\ outputPath = "out" => fs[outputFile] = fs[RootFile]
    /\ pc = "Commit" =>
          /\ index = FileOf(content)
          /\ outputPath = "out" => fs[outputFile] = index
    /\ pc = "Push" =>
          /\ tree[branch] = FileOf(content)
          /\ outputPath = "out" => fs[outputFile] = tree[branch]

\* both files were written in one run, the local one outside the repository root
C13_Witness ==
    /\ pc = "Add" /\ outputPath = "out"
    /\ fs[outputFile].exists /\ fs[outputFile].data.time = MaxTime
    /\ fs[RootFile] = fs[outputFile]

====
